---- MODULE Spec2Model ----
(***************************************************************************)
(* State-machine model of the l10n/i18n issue miner (src/mine_issues.py):  *)
(* the campaign driver main(), its window loop, the pager                  *)
(* fetch_issues_by_date and the per-quarter deduplication and persistence, *)
(* of the cleaner of its output (src/clean_data.py) and of the merge of    *)
(* its output files (src/combine_csv.py).                                  *)
(* Dates are proleptic Gregorian ordinals, as datetime.toordinal() gives.  *)
(***************************************************************************)
EXTENDS Integers, Sequences, FiniteSets, TLC

\* ------------------------------------------------------------------------
\* Bounds of the model
\* ------------------------------------------------------------------------
MaxTerms == 2        \* number of SEARCH_TERMS the model iterates
MaxPagesArg == 2     \* --max-pages is drawn from 1..MaxPagesArg
MaxPerPageArg == 2   \* --per-page is drawn from 1..MaxPerPageArg
ItemBudget == 2      \* item-bearing search responses the server gives per run
CampaignItems == 1   \* the same, in the runs over many windows and quarters
MaxWindows == 100    \* windows the model plans per quarter (a quarter has <= 92 days)
MaxRows == 2         \* rows of one CSV file of the cleaner's input
MaxRuns == 2         \* runs of combine_csv.py over the same directory

\* ------------------------------------------------------------------------
\* Module-level configuration of mine_issues.py
\* ------------------------------------------------------------------------
ALL_SEARCH_TERMS ==
  << "i18n", "l10n", "localization", "internationalization", "translation",
     "missing translation", "mistranslation", "locale", "date format",
     "time format", "currency", "rtl", "right-to-left",
     "wrong translation", "not translated", "text direction",
     "mirrored layout" >>

SEARCH_TERMS == SubSeq(ALL_SEARCH_TERMS, 1, MaxTerms)

DATE_INTERVAL_DAYS == 30
MAX_PAGES == 1
RESULTS_PER_PAGE == 10
START_YEAR == 2025
END_YEAR == 2015
DEFAULT_START_QUARTER == 1

\* the argparse defaults: running with no command-line arguments
DefaultArgs ==
  [ start_year |-> START_YEAR, end_year |-> END_YEAR,
    interval_days |-> DATE_INTERVAL_DAYS, max_pages |-> MAX_PAGES,
    per_page |-> RESULTS_PER_PAGE, start_quarter |-> DEFAULT_START_QUARTER ]

\* ------------------------------------------------------------------------
\* datetime arithmetic
\* ------------------------------------------------------------------------
IsLeap(y) == y % 4 = 0 /\ (y % 100 # 0 \/ y % 400 = 0)

DaysInMonth(y, m) ==
  IF m \in {1, 3, 5, 7, 8, 10, 12} THEN 31
  ELSE IF m = 2 THEN (IF IsLeap(y) THEN 29 ELSE 28)
  ELSE 30

RECURSIVE DaysBeforeMonth(_, _)
DaysBeforeMonth(y, m) ==
  IF m = 1 THEN 0 ELSE DaysBeforeMonth(y, m - 1) + DaysInMonth(y, m - 1)

DaysBeforeYear(y) ==
  (y - 1) * 365 + ((y - 1) \div 4) - ((y - 1) \div 100) + ((y - 1) \div 400)

\* datetime(year, month, day), as its ordinal
datetime(y, m, d) == DaysBeforeYear(y) + DaysBeforeMonth(y, m) + d

\* the year, month and day of an ordinal (datetime's _ord2ymd)
Ord2Ymd(o) ==
  LET n0 == o - 1
      n400 == n0 \div 146097
      r400 == n0 % 146097
      n100 == r400 \div 36524
      r100 == r400 % 36524
      n4 == r100 \div 1461
      r4 == r100 % 1461
      n1 == r4 \div 365
      n == r4 % 365
      y == n400 * 400 + 1 + n100 * 100 + n4 * 4 + n1
      leap == n1 = 3 /\ (n4 # 24 \/ n100 = 3)
      ly == IF leap THEN 2000 ELSE 2001
      guess == (n + 50) \div 32
      m == IF DaysBeforeMonth(ly, guess) > n THEN guess - 1 ELSE guess
  IN  IF n1 = 4 \/ n100 = 4 THEN << y - 1, 12, 31 >>
      ELSE << y, m, n - DaysBeforeMonth(ly, m) + 1 >>

\* d.strftime("%Y-%m-%d"), as the triple <<year, month, day>>
strftime(o) == Ord2Ymd(o)

Max(a, b) == IF a >= b THEN a ELSE b

\* ------------------------------------------------------------------------
\* The external service: raw result items and comment threads
\* ------------------------------------------------------------------------
NoBody == [images |-> << >>, mentions |-> {}]

\* what the comments endpoint answers for a comment-thread reference
CommentThreads ==
  [ c1 |-> [status |-> 200,
            comments |-> << NoBody, [images |-> << "c1.png" >>, mentions |-> {}] >>],
    c2 |-> [status |-> 404, comments |-> << >>] ]

RawItems ==
  { [id |-> 1, html_url |-> "u1", title |-> {},
     body |-> [images |-> << "b1.png" >>, mentions |-> {}], comments_url |-> "c1"],
    [id |-> 2, html_url |-> "u2", title |-> {"l10n"},
     body |-> NoBody, comments_url |-> "c2"] }

ERROR_STATUSES == {429, 500}

\* the non-empty pages a server may answer to a request for per_page items:
\* at most per_page items, no item twice in one page
Pages(per_page) ==
  { p \in UNION { [1..n -> RawItems] : n \in 1..per_page } :
      \A i, j \in 1..Len(p) : i # j => p[i] # p[j] }

\* ------------------------------------------------------------------------
\* Pure functions of mine_issues.py
\* ------------------------------------------------------------------------
extract_image_urls(text) == text.images

RECURSIVE CommentImages(_)
CommentImages(comments) ==
  IF comments = << >> THEN << >>
  ELSE extract_image_urls(Head(comments)) \o CommentImages(Tail(comments))

fetch_issue_comments(comments_url) ==
  LET response == CommentThreads[comments_url]
  IN  IF response.status # 200 THEN << >>
      ELSE CommentImages(response.comments)

detect_search_terms(text, term) ==
  LET found_terms == SelectSeq(SEARCH_TERMS, LAMBDA t : t \in text)
  IN  IF \E i \in 1..Len(found_terms) : found_terms[i] = term
      THEN found_terms
      ELSE Append(found_terms, term)

\* the record fetch_issues_by_date builds for one raw item
Enrich(item, term) ==
  [ issue_id |-> item.id,
    url |-> item.html_url,
    image_urls |-> extract_image_urls(item.body)
                     \o fetch_issue_comments(item.comments_url),
    search_terms_found |->
        detect_search_terms(item.title \cup item.body.mentions, term) ]

EnrichPage(items, term) == [i \in 1..Len(items) |-> Enrich(items[i], term)]

\* issues.append(...) for every item of a page
AppendPage(found, enriched) == found \o enriched

\* mutant: the comment thread is fetched only for an item whose URL main() has
\* not kept yet
CommentFetchesUnseen(items, seen) ==
  LET unseen == SelectSeq(items, LAMBDA item : item.html_url \notin seen)
  IN  [ i \in 1..Len(unseen) |->
          [ url |-> unseen[i].html_url, comments_url |-> unseen[i].comments_url ] ]
\* the fetch_issue_comments calls the item loop makes for one page: one per
\* item, whatever main() has seen
CommentFetches(items, seen) ==
  [ i \in 1..Len(items) |->
      [ url |-> items[i].html_url, comments_url |-> items[i].comments_url ] ]

\* mutant: the page loop runs one page past the cap
LastPageOneMore(max_pages) == max_pages + 1
\* range(1, MAX_PAGES + 1): the last page number the loop requests
LastPage(max_pages) == max_pages

\* mutant: the throttled page is requested again
PageAfterThrottleRetry(p) == p
\* `continue` in the page loop after a 403
PageAfterThrottle(p) == p + 1

\* mutant: a RequestException ends the page loop
PageAfterConnErrorStop(p) == LastPage(MaxPagesArg) + 1
\* `continue` in the page loop after a RequestException
PageAfterConnError(p) == p + 1

IsThrottled(status) == status = 403

\* mutant: a non-200 status raises and ends the run
AfterBreakRaise == "done"
\* `break` leaves the page loop and falls to `return issues`
AfterBreak == "fetched"

\* mutant: an empty page does not end the page loop
AfterEmptyPageContinue == "fetch"
\* `if not items: break`
AfterEmptyPage == AfterBreak

\* ------------------------------------------------------------------------
\* Pure pieces of main()
\* ------------------------------------------------------------------------
\* mutant: the first quarter ends with February
quartersQ1ToFebruary == << <<1, 2>>, <<4, 6>>, <<7, 9>>, <<10, 12>> >>
quarters == << <<1, 3>>, <<4, 6>>, <<7, 9>>, <<10, 12>> >>

\* mutant: every quarter's last month is given 30 days
LastDayThirty(y, m_end) == 30
LastDay(y, m_end) ==
  IF m_end \in {1, 3, 5, 7, 8, 10, 12} THEN 31
  ELSE IF m_end = 2
       THEN (IF y % 4 = 0 /\ (y % 100 # 0 \/ y % 400 = 0) THEN 29 ELSE 28)
       ELSE 30

QStart(y, q) == datetime(y, quarters[q][1], 1)
QEnd(y, q) == datetime(y, quarters[q][2], LastDay(y, quarters[q][2]))

\* mutant: no quarter is taken to lie in the future
QuarterInFutureNever(qs, now) == FALSE
\* if q_start > today: break
QuarterInFuture(qs, now) == qs > now

\* range(END_YEAR, START_YEAR - 1, -1)
FirstYear(a) == a.end_year
YearInRange(y, a) == y > a.start_year - 1

\* mutant: a window reaches n days back from its end and so holds n + 1 days
IntervalStartOneMore(qs, cs, n) == Max(qs, cs - n)
\* max(q_start, current_start - timedelta(days=DATE_INTERVAL_DAYS - 1))
IntervalStart(qs, cs, n) == Max(qs, cs - (n - 1))
\* mutant: the cursor steps two days back and leaves a day between windows
NextCurrentStartGap(istart) == istart - 2
NextCurrentStart(istart) == istart - 1

\* mutant: every returned issue is appended, seen or not
MergeIssuesNoCheck(seen, kept, found) ==
  [ seen_urls |-> seen \cup { found[i].url : i \in 1..Len(found) },
    quarter_issues |-> kept \o found ]
\* the dedup loop over one fetch result
RECURSIVE MergeIssues(_, _, _)
MergeIssues(seen, kept, found) ==
  IF found = << >> THEN [seen_urls |-> seen, quarter_issues |-> kept]
  ELSE LET issue == Head(found)
       IN  IF issue.url \notin seen
           THEN MergeIssues(seen \cup {issue.url}, Append(kept, issue), Tail(found))
           ELSE MergeIssues(seen, kept, Tail(found))

\* mutant: every deduplicated issue is written
IssuesUnfiltered(kept) == kept
IssuesWithImages(kept) == SelectSeq(kept, LAMBDA i : i.image_urls # << >>)

\* ------------------------------------------------------------------------
\* Inputs: command lines and the clock
\* ------------------------------------------------------------------------
Arguments(sy, ey, n, mp, pp, sq) ==
  [ start_year |-> sy, end_year |-> ey, interval_days |-> n,
    max_pages |-> mp, per_page |-> pp, start_quarter |-> sq ]

Todays == { datetime(2025, 5, 10) }

\* one quarter crawled in two windows: Q2 2025 with every page cap and page
\* size, Q4 2024 with the default page cap
PagerConfigs ==
  { Arguments(2025, 2025, 46, mp, pp, 2) :
      mp \in 1..MaxPagesArg, pp \in 1..MaxPerPageArg }
  \cup { Arguments(2024, 2024, 46, MAX_PAGES, 1, 4) }

\* runs over several years and quarters, the default command line among them
CampaignConfigs ==
  {DefaultArgs} \cup
  { Arguments(2024, 2025, n, MAX_PAGES, 1, sq) : n \in {46, 92}, sq \in {1, 3} }

\* one quarter cut into windows of many lengths: Q2 2025 (91 days) and
\* Q4 2024 (92 days)
WindowConfigs ==
  { Arguments(2025, 2025, n, MAX_PAGES, 1, 2) : n \in {1, 7, 30, 91, 100} }
  \cup { Arguments(2024, 2024, n, MAX_PAGES, 1, 4) : n \in {30, 92} }

\* the scenario of the first quarter of 2021 cut into 30-day windows
ScenarioConfigs == { Arguments(2021, 2021, 30, MAX_PAGES, 1, 1) }

\* interval lengths argparse takes although they give no window sequence
IntervalConfigs ==
  { Arguments(2024, 2025, n, MAX_PAGES, 1, 3) : n \in {-1, 0, 46} }

NoFile == [year |-> 0, quarter |-> 0, total_collected |-> 0,
           total_saved |-> 0, issues |-> << >>]

\* ------------------------------------------------------------------------
\* clean_data.py: configuration, helpers and input
\* ------------------------------------------------------------------------
\* a text is the set of lower-case phrases that occur in it; the list has no
\* comma after "not working", so Python joins it with "not translated"
BUG_KEYWORDS ==
  { "bug", "fix", "error", "fail", "failure", "issue", "problem",
    "broken", "incorrect", "wrong", "unexpected", "missing",
    "lost", "typo", "properly", "failing", "failed", "does not work",
    "doesn't work", "not workingnot translated",
    "wrong translation", "missing translation",
    "mistranslation", "translation missing" }

CLEAN_SEARCH_TERMS ==
  { "i18n", "l10n", "localization", "internationalization", "translation",
    "missing translation", "mistranslation", "locale", "date format",
    "time format", "currency",
    "rtl", "right-to-left", "right to left",
    "wrong translation", "not translated", "text direction", "mirrored layout" }

MIN_IMAGE_SIZE == 80

contains_bug_keyword(text) ==
  text # {} /\ \E k \in BUG_KEYWORDS : k \in text

contains_valid_search_term(text) ==
  text # {} /\ \E term \in CLEAN_SEARCH_TERMS : term \in text

\* what requests.get(url) answers: a URL that is not listed raises
ImageServer ==
  [ big |-> [status_code |-> 200, w |-> 640, h |-> 480],
    icon |-> [status_code |-> 200, w |-> 80, h |-> 80],
    gone |-> [status_code |-> 404, w |-> 0, h |-> 0] ]

image_is_valid(url) ==
  IF url \notin DOMAIN ImageServer THEN FALSE
  ELSE IF ImageServer[url].status_code # 200 THEN FALSE
       ELSE ImageServer[url].w > MIN_IMAGE_SIZE /\ ImageServer[url].h > MIN_IMAGE_SIZE

\* urls is the list urls_str splits into
any_valid_image(urls) ==
  urls # << >> /\ \E i \in 1..Len(urls) : image_is_valid(urls[i])

\* f"{title} {body} {labels}".lower()
combined_text(row) == row.title \cup row.body \cup row.labels

\* mutant: the images are checked before the search terms
VerdictImageBeforeTerm(row) ==
  IF ~contains_bug_keyword(combined_text(row)) THEN "bug_keyword"
  ELSE IF ~any_valid_image(row.image_urls) THEN "image"
  ELSE IF ~contains_valid_search_term(combined_text(row)) THEN "search_term"
  ELSE "kept"
\* the branch of the row loop a row takes: RULE 1, RULE 2, RULE 3, keep
Verdict(row) ==
  IF ~contains_bug_keyword(combined_text(row)) THEN "bug_keyword"
  ELSE IF ~contains_valid_search_term(combined_text(row)) THEN "search_term"
  ELSE IF ~any_valid_image(row.image_urls) THEN "image"
  ELSE "kept"

\* counters[key] += 1
Count(c, key) == [c EXCEPT ![key] = @ + 1]

LogEntry(row, csv_file, removed_by) ==
  [ issue_id |-> row.issue_id, csv_file |-> csv_file,
    removed_by |-> removed_by, title |-> row.title ]

\* row.pop("body", None)
DropBody(row) ==
  [ issue_id |-> row.issue_id, title |-> row.title, labels |-> row.labels,
    image_urls |-> row.image_urls ]

NoCounters ==
  [ total_scanned |-> 0, kept |-> 0, removed_bug_keyword |-> 0,
    removed_search_term |-> 0, removed_image |-> 0 ]

\* rows a CSV file of the miner may hold
CsvRows ==
  { [issue_id |-> 1, title |-> {"bug", "i18n"}, body |-> {}, labels |-> {},
     image_urls |-> << "gone", "big" >>],
    [issue_id |-> 2, title |-> {"i18n"}, body |-> {"locale"}, labels |-> {},
     image_urls |-> << "big" >>],
    [issue_id |-> 3, title |-> {"bug"}, body |-> {}, labels |-> {"typo"},
     image_urls |-> << "big" >>],
    [issue_id |-> 4, title |-> {"error"}, body |-> {"locale"}, labels |-> {},
     image_urls |-> << "icon", "gone", "lost.png" >>],
    [issue_id |-> 5, title |-> {}, body |-> {}, labels |-> {},
     image_urls |-> << >>],
    [issue_id |-> 6, title |-> {"fix"}, body |-> {}, labels |-> {},
     image_urls |-> << >>] }

\* sorted(INPUT_DIR.glob("*.csv"))
Directories ==
  { << >>,
    << "issues_2024_Q3.csv" >>,
    << "issues_2024_Q3.csv", "issues_2024_Q4.csv" >> }

\* ------------------------------------------------------------------------
\* combine_csv.py: configuration, helpers and input
\* ------------------------------------------------------------------------
\* a CSV file is its header line and its rows, each a dict from column to
\* string; a file of no bytes has no header
MERGED_FILE == "merged_issues.csv"

CsvFile(name, fieldnames, rows) ==
  [ name |-> name, fieldnames |-> fieldnames, rows |-> rows ]

\* `if "body" in row: del row["body"]`
WithoutBody(row) == [ col \in (DOMAIN row) \ {"body"} |-> row[col] ]

\* cols = [col for col in reader.fieldnames if col != "body"]
Cols(fieldnames) == { fieldnames[i] : i \in 1..Len(fieldnames) } \ {"body"}

\* the rows the loop over one file appends to merged_rows
RowsRead(file) == [ i \in 1..Len(file.rows) |-> WithoutBody(file.rows[i]) ]

\* DictWriter.writerow: the columns of the header, "" for a missing one
WriteRow(row, fieldnames) ==
  [ col \in { fieldnames[i] : i \in 1..Len(fieldnames) } |->
      IF col \in DOMAIN row THEN row[col] ELSE "" ]

\* the orders in which the elements of a sequence may be listed
Orderings(s) ==
  { [ i \in 1..Len(s) |-> s[order[i]] ] :
      order \in { f \in [1..Len(s) -> 1..Len(s)] :
                    \A i, j \in 1..Len(s) : i # j => f[i] # f[j] } }

\* the orders list(all_fieldnames) may give for a set of columns
ColumnOrders(columns) ==
  { f \in [1..Cardinality(columns) -> columns] :
      \A i, j \in 1..Cardinality(columns) : i # j => f[i] # f[j] }

\* the per-quarter files of output/, as mine_issues.py writes them
QuarterFile3 ==
  CsvFile("issues_2024_Q3.csv", << "issue_id", "title", "body" >>,
          << [issue_id |-> "1", title |-> "a", body |-> "x"],
             [issue_id |-> "2", title |-> "b", body |-> "y"] >>)
QuarterFile4 ==
  CsvFile("issues_2024_Q4.csv", << "issue_id", "title", "body" >>,
          << [issue_id |-> "3", title |-> "c", body |-> "z"] >>)
EmptyFile == CsvFile("issues_2025_Q1.csv", << >>, << >>)

OutputDirs ==
  { << >>,
    << QuarterFile3 >>,
    << QuarterFile3, QuarterFile4 >>,
    << QuarterFile3, QuarterFile4, EmptyFile >> }

\* ------------------------------------------------------------------------
\* State
\* ------------------------------------------------------------------------
VARIABLES
  args,            \* the parsed command line (the module globals after main() sets them)
  today,           \* datetime.utcnow(), read once
  pc,              \* position of main(): year, quarter, window, term, fetch, fetched, persist, done
  year, q_index,   \* loop variables of the year and quarter loops
  q_start, q_end,
  current_start, interval_start,
  since_str, until_str,
  term_idx,        \* position in SEARCH_TERMS
  page, issues,    \* fetch_issues_by_date: loop variable and result list
  seen_urls, quarter_issues,
  saved,           \* the JSON file written last: counts and issues
  budget,          \* item-bearing responses the server may still give
  years_processed, \* history: years the year loop entered
  windows,         \* history: <<since, until>> of the windows of this quarter
  requests,        \* history: search requests of the latest fetch call
  cooldowns,       \* history: sleep(60) calls of the latest fetch call
  returned,        \* history: every issue the fetches of this quarter returned,
                   \* in the order the fetches were called
  processed,       \* history: <<year, q_index>> of the quarters whose window loop began
  comment_fetches  \* history: the fetch_issue_comments calls of this quarter, each
                   \* with the URL of the issue it was made for

\* clean_data.py
VARIABLES
  c_pc,            \* position of clean_data.main(): main, file, rows, done
  csv_files,       \* the sorted list of input files
  file_idx,        \* position in csv_files
  total_before,    \* process_single_csv: rows read of the file so far
  counters,
  clean_log,       \* the rows written to cleaning_log.csv
  valid_rows,
  stats,           \* cleaning_stats.csv: << >> or the counters saved last
  cleaned,         \* the cleaned files written, each with its source file
  scanned,         \* history: every row read, in order
  image_checks     \* history: positions in scanned of the rows any_valid_image
                   \* was called for

\* combine_csv.py
VARIABLES
  m_pc,            \* position of the script: start, read, exit
  output_dir,      \* the per-quarter CSV files of output/
  merged_file,     \* output/merged_issues.csv: << >> or << its content >>
  m_csv_files,     \* csv_files: the list the glob gave
  m_idx,           \* position in m_csv_files
  merged_rows,
  all_fieldnames,
  runs,            \* history: runs of the script that came to their end
  merged_after     \* history: merged_file after each of these runs

vars == << args, today, pc, year, q_index, q_start, q_end, current_start,
           interval_start, since_str, until_str, term_idx, page, issues, seen_urls, quarter_issues,
           saved, budget, years_processed, windows, requests, cooldowns,
           returned, processed, comment_fetches,
           c_pc, csv_files, file_idx, total_before, counters, clean_log,
           valid_rows, stats, cleaned, scanned, image_checks,
           m_pc, output_dir, merged_file, m_csv_files, m_idx, merged_rows,
           all_fieldnames, runs, merged_after >>

driver == << args, today, year, q_index, q_start, q_end, years_processed,
            processed >>
quarter == << current_start, interval_start, since_str, until_str,
              seen_urls, quarter_issues, windows, returned, comment_fetches >>
pager == << page, issues, requests, cooldowns >>
miner == << driver, quarter, pager, pc, term_idx, saved, budget >>
cleaner == << c_pc, csv_files, file_idx, total_before, counters, clean_log,
              valid_rows, stats, cleaned, scanned, image_checks >>
merger == << m_pc, output_dir, merged_file, m_csv_files, m_idx, merged_rows,
             all_fieldnames, runs, merged_after >>

InitMiner(configs, items) ==
  /\ args \in configs
  /\ today \in Todays
  /\ pc = "year"
  /\ year = FirstYear(args)
  /\ q_index = 1
  /\ q_start = 0 /\ q_end = 0
  /\ current_start = 0 /\ interval_start = 0
  /\ since_str = << >> /\ until_str = << >>
  /\ term_idx = 1
  /\ page = 1 /\ issues = << >>
  /\ seen_urls = {} /\ quarter_issues = << >>
  /\ saved = NoFile
  /\ budget = items
  /\ years_processed = << >>
  /\ windows = << >>
  /\ requests = << >>
  /\ cooldowns = 0
  /\ returned = << >>
  /\ processed = << >>
  /\ comment_fetches = << >>

InitCleaner(dirs) ==
  /\ csv_files \in dirs
  /\ c_pc = "main"
  /\ file_idx = 1
  /\ total_before = 0
  /\ counters = NoCounters
  /\ clean_log = << >>
  /\ valid_rows = << >>
  /\ stats = << >>
  /\ cleaned = << >>
  /\ scanned = << >>
  /\ image_checks = {}

InitMerger(dirs) ==
  /\ output_dir \in dirs
  /\ merged_file = << >>
  /\ m_pc = "start"
  /\ m_csv_files = << >>
  /\ m_idx = 1
  /\ merged_rows = << >>
  /\ all_fieldnames = {}
  /\ runs = 0
  /\ merged_after = << >>

\* a run of mine_issues.py: the cleaner and the merge are not started
InitWith(configs, items) ==
  InitMiner(configs, items) /\ InitCleaner({ << >> }) /\ InitMerger({ << >> })

\* a run of clean_data.py: the miner and the merge are not started
InitClean ==
  InitMiner({DefaultArgs}, 0) /\ InitCleaner(Directories) /\ InitMerger({ << >> })

\* runs of combine_csv.py: the miner and the cleaner are not started
InitMerge ==
  InitMiner({DefaultArgs}, 0) /\ InitCleaner({ << >> }) /\ InitMerger(OutputDirs)

Init == InitWith(PagerConfigs, ItemBudget)
InitCampaign ==
  InitWith(CampaignConfigs \cup WindowConfigs \cup ScenarioConfigs, CampaignItems)

\* mutant: the count of every issue the fetches returned, duplicates included
TotalCollectedRaw(kept) == Len(returned)
\* total_collected=len(quarter_issues)
TotalCollected(kept) == Len(kept)

\* ------------------------------------------------------------------------
\* main(): year and quarter loops
\* ------------------------------------------------------------------------
EnterYear ==
  /\ pc = "year" /\ YearInRange(year, args)
  /\ years_processed' = Append(years_processed, year)
  /\ q_index' = 1
  /\ pc' = "quarter"
  /\ UNCHANGED << args, today, year, q_start, q_end, processed, term_idx,
                  saved, budget >>
  /\ UNCHANGED << quarter, pager >>
  /\ UNCHANGED << cleaner, merger >>

Finish ==
  /\ pc = "year" /\ ~YearInRange(year, args)
  /\ pc' = "done"
  /\ UNCHANGED << driver, quarter, pager, term_idx, saved, budget >>
  /\ UNCHANGED << cleaner, merger >>

\* `continue` for a quarter before --start-quarter
SkipQuarter ==
  /\ pc = "quarter" /\ q_index <= 4
  /\ q_index < args.start_quarter
  /\ q_index' = q_index + 1
  /\ UNCHANGED << args, today, pc, year, q_start, q_end, years_processed,
                  processed, term_idx, saved, budget >>
  /\ UNCHANGED << quarter, pager >>
  /\ UNCHANGED << cleaner, merger >>

\* `break` out of the quarter loop: the quarter starts after today
AbandonYear ==
  /\ pc = "quarter" /\ q_index <= 4
  /\ ~(q_index < args.start_quarter)
  /\ QuarterInFuture(QStart(year, q_index), today)
  /\ q_start' = QStart(year, q_index)
  /\ q_end' = QEnd(year, q_index)
  /\ year' = year - 1
  /\ pc' = "year"
  /\ UNCHANGED << args, today, q_index, years_processed, processed, term_idx,
                  saved, budget >>
  /\ UNCHANGED << quarter, pager >>
  /\ UNCHANGED << cleaner, merger >>

StartQuarter ==
  /\ pc = "quarter" /\ q_index <= 4
  /\ ~(q_index < args.start_quarter)
  /\ ~QuarterInFuture(QStart(year, q_index), today)
  /\ q_start' = QStart(year, q_index)
  /\ q_end' = QEnd(year, q_index)
  /\ current_start' = QEnd(year, q_index)
  /\ seen_urls' = {}
  /\ quarter_issues' = << >>
  /\ windows' = << >>
  /\ returned' = << >>
  /\ comment_fetches' = << >>
  /\ processed' = Append(processed, << year, q_index >>)
  /\ pc' = "window"
  /\ UNCHANGED << args, today, year, q_index, years_processed, interval_start,
                  since_str, until_str, term_idx, saved, budget >>
  /\ UNCHANGED pager
  /\ UNCHANGED << cleaner, merger >>

\* the quarter loop is exhausted
EndYear ==
  /\ pc = "quarter" /\ q_index > 4
  /\ year' = year - 1
  /\ pc' = "year"
  /\ UNCHANGED << args, today, q_index, q_start, q_end, years_processed,
                  processed, term_idx, saved, budget >>
  /\ UNCHANGED << quarter, pager >>
  /\ UNCHANGED << cleaner, merger >>

\* ------------------------------------------------------------------------
\* main(): window loop and term loop
\* ------------------------------------------------------------------------
PlanWindow ==
  /\ pc = "window" /\ current_start >= q_start
  /\ Len(windows) < MaxWindows
  /\ interval_start' = IntervalStart(q_start, current_start, args.interval_days)
  /\ since_str' = strftime(IntervalStart(q_start, current_start, args.interval_days))
  /\ until_str' = strftime(current_start)
  /\ windows' = Append(windows,
        << IntervalStart(q_start, current_start, args.interval_days),
           current_start >>)
  /\ term_idx' = 1
  /\ pc' = "term"
  /\ UNCHANGED << driver, current_start, seen_urls, quarter_issues, returned,
                  comment_fetches, saved, budget >>
  /\ UNCHANGED pager
  /\ UNCHANGED << cleaner, merger >>

EndWindows ==
  /\ pc = "window" /\ ~(current_start >= q_start)
  /\ pc' = "persist"
  /\ UNCHANGED << driver, quarter, pager, term_idx, saved, budget >>
  /\ UNCHANGED << cleaner, merger >>

\* call fetch_issues_by_date(term, since_str, until_str)
CallFetch ==
  /\ pc = "term" /\ term_idx <= Len(SEARCH_TERMS)
  /\ issues' = << >>
  /\ page' = 1
  /\ requests' = << >>
  /\ cooldowns' = 0
  /\ pc' = "fetch"
  /\ UNCHANGED << driver, quarter, term_idx, saved, budget >>
  /\ UNCHANGED << cleaner, merger >>

\* the term loop is exhausted: move the cursor to the day before the window
AdvanceWindow ==
  /\ pc = "term" /\ term_idx > Len(SEARCH_TERMS)
  /\ current_start' = NextCurrentStart(interval_start)
  /\ pc' = "window"
  /\ UNCHANGED << driver, interval_start, since_str, until_str, seen_urls,
                  quarter_issues, windows, returned, comment_fetches, pager,
                  term_idx, saved, budget >>
  /\ UNCHANGED << cleaner, merger >>

\* ------------------------------------------------------------------------
\* fetch_issues_by_date: one iteration of the page loop per server response
\* ------------------------------------------------------------------------
\* status 0 stands for requests.get raising instead of answering
Request(status, items) ==
  [ page |-> page, term |-> SEARCH_TERMS[term_idx],
    since |-> since_str, until |-> until_str,
    status |-> status, items |-> items ]

InPageLoop == pc = "fetch" /\ page <= LastPage(args.max_pages)

\* requests.get raises RequestException: `continue`
ConnectionError ==
  /\ InPageLoop
  /\ requests' = Append(requests, Request(0, << >>))
  /\ page' = PageAfterConnError(page)
  /\ UNCHANGED << driver, quarter, pc, term_idx, issues, cooldowns, saved, budget >>
  /\ UNCHANGED << cleaner, merger >>

\* status 403: sleep(60), `continue`
RateLimited ==
  /\ InPageLoop
  /\ \E status \in {403} \cup ERROR_STATUSES :
       /\ IsThrottled(status)
       /\ requests' = Append(requests, Request(status, << >>))
  /\ cooldowns' = cooldowns + 1
  /\ page' = PageAfterThrottle(page)
  /\ UNCHANGED << driver, quarter, pc, term_idx, issues, saved, budget >>
  /\ UNCHANGED << cleaner, merger >>

\* any other status than 200: `break`
ErrorStatus ==
  /\ InPageLoop
  /\ \E status \in {403} \cup ERROR_STATUSES :
       /\ ~IsThrottled(status)
       /\ requests' = Append(requests, Request(status, << >>))
  /\ pc' = AfterBreak
  /\ UNCHANGED << driver, quarter, term_idx, page, issues, cooldowns, saved, budget >>
  /\ UNCHANGED << cleaner, merger >>

\* status 200 and no items: `break`
EmptyPage ==
  /\ InPageLoop
  /\ requests' = Append(requests, Request(200, << >>))
  /\ pc' = AfterEmptyPage
  /\ UNCHANGED << driver, quarter, term_idx, page, issues, cooldowns, saved, budget >>
  /\ UNCHANGED << cleaner, merger >>

\* status 200 with items: enrich and append each, sleep(1), next page
ItemsPage ==
  /\ InPageLoop
  /\ budget > 0
  /\ \E items \in Pages(args.per_page) :
       /\ requests' = Append(requests, Request(200, items))
       /\ issues' = AppendPage(issues, EnrichPage(items, SEARCH_TERMS[term_idx]))
       /\ comment_fetches' = comment_fetches \o CommentFetches(items, seen_urls)
  /\ budget' = budget - 1
  /\ page' = page + 1
  /\ UNCHANGED << driver, current_start, interval_start, since_str, until_str,
                  seen_urls, quarter_issues, windows, returned, pc, term_idx,
                  cooldowns, saved >>
  /\ UNCHANGED << cleaner, merger >>

\* the page loop is exhausted: return issues
ReturnIssues ==
  /\ pc = "fetch" /\ ~(page <= LastPage(args.max_pages))
  /\ pc' = "fetched"
  /\ UNCHANGED << driver, quarter, pager, term_idx, saved, budget >>
  /\ UNCHANGED << cleaner, merger >>

\* main(): the dedup loop over the list the fetch returned, then the next term
Dedup ==
  /\ pc = "fetched"
  /\ LET m == MergeIssues(seen_urls, quarter_issues, issues)
     IN  /\ seen_urls' = m.seen_urls
         /\ quarter_issues' = m.quarter_issues
  /\ returned' = returned \o issues
  /\ term_idx' = term_idx + 1
  /\ pc' = "term"
  /\ UNCHANGED << driver, current_start, interval_start, since_str, until_str,
                  windows, comment_fetches, pager, saved, budget >>
  /\ UNCHANGED << cleaner, merger >>

\* main(): filter on images, save_to_csv and save_to_json, next quarter
Persist ==
  /\ pc = "persist"
  /\ saved' = [ year |-> year, quarter |-> q_index,
                total_collected |-> TotalCollected(quarter_issues),
                total_saved |-> Len(IssuesWithImages(quarter_issues)),
                issues |-> IssuesWithImages(quarter_issues) ]
  /\ q_index' = q_index + 1
  /\ pc' = "quarter"
  /\ UNCHANGED << args, today, year, q_start, q_end, years_processed,
                  processed, quarter, pager, term_idx, budget >>
  /\ UNCHANGED << cleaner, merger >>

Next ==
  \/ EnterYear \/ Finish
  \/ SkipQuarter \/ AbandonYear \/ StartQuarter \/ EndYear
  \/ PlanWindow \/ EndWindows \/ CallFetch \/ AdvanceWindow
  \/ ConnectionError \/ RateLimited \/ ErrorStatus \/ EmptyPage \/ ItemsPage
  \/ ReturnIssues \/ Dedup \/ Persist

\* the crawl of one quarter
Spec == Init /\ [][Next]_vars

\* the campaign over years, quarters and windows
CampaignSpec == InitCampaign /\ [][Next]_vars

\* the campaign with any integer as --interval-days
IntervalSpec == InitWith(IntervalConfigs, CampaignItems) /\ [][Next]_vars

\* main() is one sequential thread: a step that can be taken is taken
FairConfigs == { Arguments(2024, 2025, 92, mp, 1, 3) : mp \in 1..MaxPagesArg }
FairSpec == InitWith(FairConfigs, ItemBudget) /\ [][Next]_vars /\ WF_vars(Next)

\* ------------------------------------------------------------------------
\* clean_data.py: main() and process_single_csv
\* ------------------------------------------------------------------------
\* `if not csv_files: return`
NoCsvFiles ==
  /\ c_pc = "main" /\ csv_files = << >>
  /\ c_pc' = "done"
  /\ UNCHANGED << csv_files, file_idx, total_before, counters, clean_log,
                  valid_rows, stats, cleaned, scanned, image_checks >>
  /\ UNCHANGED << miner, merger >>

\* the counters are set to 0 and the log file is opened
OpenLog ==
  /\ c_pc = "main" /\ csv_files # << >>
  /\ counters' = NoCounters
  /\ clean_log' = << >>
  /\ file_idx' = 1
  /\ c_pc' = "file"
  /\ UNCHANGED << csv_files, total_before, valid_rows, stats, cleaned, scanned,
                  image_checks >>
  /\ UNCHANGED << miner, merger >>

\* process_single_csv(csv_file, log_writer, counters) is called
OpenCsv ==
  /\ c_pc = "file" /\ file_idx <= Len(csv_files)
  /\ valid_rows' = << >>
  /\ total_before' = 0
  /\ c_pc' = "rows"
  /\ UNCHANGED << csv_files, file_idx, counters, clean_log, stats, cleaned,
                  scanned, image_checks >>
  /\ UNCHANGED << miner, merger >>

\* the file has one more row
InRowLoop == c_pc = "rows" /\ total_before < MaxRows

\* a row is read and removed: the counter of the rule, the log row, save_stats
Remove(row, removed_by, key) ==
  /\ total_before' = total_before + 1
  /\ scanned' = Append(scanned, row)
  /\ counters' = Count(Count(counters, "total_scanned"), key)
  /\ clean_log' = Append(clean_log, LogEntry(row, csv_files[file_idx], removed_by))
  /\ stats' = << Count(Count(counters, "total_scanned"), key) >>
  /\ UNCHANGED << c_pc, csv_files, file_idx, valid_rows, cleaned >>
  /\ UNCHANGED << miner, merger >>

\* RULE 1
RemoveBugKeyword ==
  /\ InRowLoop
  /\ \E row \in CsvRows :
       /\ Verdict(row) = "bug_keyword"
       /\ Remove(row, "bug_keyword", "removed_bug_keyword")
  /\ UNCHANGED image_checks

\* RULE 2
RemoveSearchTerm ==
  /\ InRowLoop
  /\ \E row \in CsvRows :
       /\ Verdict(row) = "search_term"
       /\ Remove(row, "search_term", "removed_search_term")
  /\ UNCHANGED image_checks

\* RULE 3: any_valid_image is called and finds no image
RemoveImage ==
  /\ InRowLoop
  /\ \E row \in CsvRows :
       /\ Verdict(row) = "image"
       /\ Remove(row, "image", "removed_image")
  /\ image_checks' = image_checks \cup { Len(scanned) + 1 }

\* the row passed the three rules
KeepRow ==
  /\ InRowLoop
  /\ \E row \in CsvRows :
       /\ Verdict(row) = "kept"
       /\ total_before' = total_before + 1
       /\ scanned' = Append(scanned, row)
       /\ counters' = Count(Count(counters, "total_scanned"), "kept")
       /\ clean_log' = Append(clean_log, LogEntry(row, csv_files[file_idx], "kept"))
       /\ valid_rows' = Append(valid_rows, row)
       /\ stats' = << Count(Count(counters, "total_scanned"), "kept") >>
  /\ image_checks' = image_checks \cup { Len(scanned) + 1 }
  /\ UNCHANGED << c_pc, csv_files, file_idx, cleaned >>
  /\ UNCHANGED << miner, merger >>

\* the rows of the file are exhausted and some are valid: the cleaned file
SaveCleaned ==
  /\ c_pc = "rows" /\ valid_rows # << >>
  /\ cleaned' = Append(cleaned,
        [ csv_file |-> csv_files[file_idx],
          rows |-> [ i \in 1..Len(valid_rows) |-> DropBody(valid_rows[i]) ] ])
  /\ file_idx' = file_idx + 1
  /\ c_pc' = "file"
  /\ UNCHANGED << csv_files, total_before, counters, clean_log, valid_rows,
                  stats, scanned, image_checks >>
  /\ UNCHANGED << miner, merger >>

\* the rows of the file are exhausted and none is valid: no file is written
NoValidRows ==
  /\ c_pc = "rows" /\ valid_rows = << >>
  /\ file_idx' = file_idx + 1
  /\ c_pc' = "file"
  /\ UNCHANGED << csv_files, total_before, counters, clean_log, valid_rows,
                  stats, cleaned, scanned, image_checks >>
  /\ UNCHANGED << miner, merger >>

\* the file loop is exhausted
CleanFinish ==
  /\ c_pc = "file" /\ ~(file_idx <= Len(csv_files))
  /\ c_pc' = "done"
  /\ UNCHANGED << csv_files, file_idx, total_before, counters, clean_log,
                  valid_rows, stats, cleaned, scanned, image_checks >>
  /\ UNCHANGED << miner, merger >>

CleanNext ==
  \/ NoCsvFiles \/ OpenLog \/ OpenCsv
  \/ RemoveBugKeyword \/ RemoveSearchTerm \/ RemoveImage \/ KeepRow
  \/ SaveCleaned \/ NoValidRows \/ CleanFinish

\* the cleaning of the files of a directory
CleanSpec == InitClean /\ [][CleanNext]_vars

\* ------------------------------------------------------------------------
\* combine_csv.py: the script, run again and again over output/
\* ------------------------------------------------------------------------
\* what output/ holds: the per-quarter files and, once written, the merged
\* file, which lies in the same directory
Listing ==
  output_dir \o
    ( IF merged_file = << >> THEN << >>
      ELSE << CsvFile(MERGED_FILE, merged_file[1].fieldnames, merged_file[1].rows) >> )

\* `if not csv_files: exit(1)`
NoCsvToMerge ==
  /\ m_pc = "start" /\ runs < MaxRuns
  /\ Listing = << >>
  /\ m_csv_files' = << >>
  /\ m_pc' = "exit"
  /\ UNCHANGED << output_dir, merged_file, m_idx, merged_rows, all_fieldnames,
                  runs, merged_after >>
  /\ UNCHANGED << miner, cleaner >>

\* csv_files = list(OUTPUT_DIR.glob("*.csv")), in the order the file system
\* lists the directory
Glob ==
  /\ m_pc = "start" /\ runs < MaxRuns
  /\ Listing # << >>
  /\ m_csv_files' \in Orderings(Listing)
  /\ merged_rows' = << >>
  /\ all_fieldnames' = {}
  /\ m_idx' = 1
  /\ m_pc' = "read"
  /\ UNCHANGED << output_dir, merged_file, runs, merged_after >>
  /\ UNCHANGED << miner, cleaner >>

InFileLoop == m_pc = "read" /\ m_idx <= Len(m_csv_files)

\* `if not reader.fieldnames: continue`
SkipNoHeader ==
  /\ InFileLoop
  /\ m_csv_files[m_idx].fieldnames = << >>
  /\ m_idx' = m_idx + 1
  /\ UNCHANGED << m_pc, output_dir, merged_file, m_csv_files, merged_rows,
                  all_fieldnames, runs, merged_after >>
  /\ UNCHANGED << miner, cleaner >>

\* the columns and the rows of one file are collected
ReadFile ==
  /\ InFileLoop
  /\ m_csv_files[m_idx].fieldnames # << >>
  /\ all_fieldnames' = all_fieldnames \cup Cols(m_csv_files[m_idx].fieldnames)
  /\ merged_rows' = merged_rows \o RowsRead(m_csv_files[m_idx])
  /\ m_idx' = m_idx + 1
  /\ UNCHANGED << m_pc, output_dir, merged_file, m_csv_files, runs, merged_after >>
  /\ UNCHANGED << miner, cleaner >>

\* the merged file is written, its columns in the order list(set) gives
WriteMerged ==
  /\ m_pc = "read" /\ ~(m_idx <= Len(m_csv_files))
  /\ \E fieldnames \in ColumnOrders(all_fieldnames) :
       LET written == [ fieldnames |-> fieldnames,
                        rows |-> [ i \in 1..Len(merged_rows) |->
                                     WriteRow(merged_rows[i], fieldnames) ] ]
       IN  /\ merged_file' = << written >>
           /\ merged_after' = Append(merged_after, << written >>)
  /\ runs' = runs + 1
  /\ m_pc' = "start"
  /\ UNCHANGED << output_dir, m_csv_files, m_idx, merged_rows, all_fieldnames >>
  /\ UNCHANGED << miner, cleaner >>

MergeNext ==
  \/ NoCsvToMerge \/ Glob \/ SkipNoHeader \/ ReadFile \/ WriteMerged

\* combine_csv.py run up to MaxRuns times over the files of a directory
MergeSpec == InitMerge /\ [][MergeNext]_vars

\* ------------------------------------------------------------------------
\* Vocabulary of the properties
\* ------------------------------------------------------------------------
\* a quarter is being crawled: its window loop has started and its files are
\* not written yet
InQuarter == pc \in {"window", "term", "fetch", "fetched", "persist"}

\* the quarter's files have just been written
JustSaved == pc = "quarter" /\ saved.year = year /\ saved.quarter = q_index - 1

\* the windows that hold day d
WindowsOf(d) == { i \in 1..Len(windows) : windows[i][1] <= d /\ d <= windows[i][2] }

\* the subsequence of s at the indices in keep
Pick(s, keep) ==
  LET pick[k \in 0..Len(s)] ==
        IF k = 0 THEN << >>
        ELSE IF k \in keep THEN Append(pick[k - 1], s[k]) ELSE pick[k - 1]
  IN  pick[Len(s)]

\* the issues of a sequence that no earlier issue of it shares its URL with
FirstByUrl(found) ==
  Pick(found, { i \in 1..Len(found) :
                  \A j \in 1..(i - 1) : found[j].url # found[i].url })

\* the raw items of the pages the latest fetch call received, in request order
RECURSIVE ItemsReceived(_)
ItemsReceived(reqs) ==
  IF reqs = << >> THEN << >>
  ELSE ItemsReceived(SubSeq(reqs, 1, Len(reqs) - 1)) \o reqs[Len(reqs)].items

Failed(req) == req.status # 200

\* ------------------------------------------------------------------------
\* Properties
\* ------------------------------------------------------------------------
TypeOK ==
  /\ pc \in {"year", "quarter", "window", "term", "fetch", "fetched", "persist", "done"}
  /\ budget \in 0..Max(ItemBudget, CampaignItems)

\* C1: the windows of a quarter partition [q_start, q_end]: each window has
\* start <= end and lies inside the quarter, the first window ends at q_end,
\* each later window ends the day before the previous window's start (so the
\* end dates strictly descend); whenever the window loop is at its head, every
\* day after the cursor lies in exactly one window and no day up to the cursor
\* lies in any, so that once the loop has ended every day of the quarter lies
\* in exactly one window.
C1_WindowsPartitionQuarter ==
  InQuarter =>
    /\ \A i \in 1..Len(windows) :
         /\ windows[i][1] <= windows[i][2]
         /\ q_start <= windows[i][1]
         /\ windows[i][2] <= q_end
         /\ i = 1 => windows[i][2] = q_end
         /\ i > 1 => /\ windows[i][2] = windows[i - 1][1] - 1
                     /\ windows[i][2] < windows[i - 1][2]
    /\ pc = "window" =>
         \A d \in q_start..q_end :
           Cardinality(WindowsOf(d)) = (IF d > current_start THEN 1 ELSE 0)
    /\ pc = "persist" => \A d \in q_start..q_end : Cardinality(WindowsOf(d)) = 1

\* a quarter of 91 days cut into 30-day windows: the fourth is clipped to a day
C1_Witness ==
  /\ pc = "persist"
  /\ args.interval_days = 30
  /\ Len(windows) = 4
  /\ windows[4][1] = q_start /\ windows[4][2] = q_start
  /\ windows[1][2] = q_end

\* C2 (as claimed): a throttled search request is retried: the next request
\* of the call is for the same page of the same term and window, and the call
\* does not return on a throttled request.
C2_ThrottledPageIsRetried ==
  \A i \in 1..Len(requests) :
    requests[i].status = 403 =>
      /\ i < Len(requests) =>
           /\ requests[i + 1].page = requests[i].page
           /\ requests[i + 1].term = requests[i].term
           /\ requests[i + 1].since = requests[i].since
           /\ requests[i + 1].until = requests[i].until
      /\ i = Len(requests) => pc = "fetch"

\* C3: the quarter's collected issues are the first occurrence of each URL
\* among everything the fetches returned, in the order windows and terms were
\* traversed: no URL twice, and a later duplicate leaves the kept record as it
\* was.
C3_FirstEncounterKept ==
  /\ quarter_issues = FirstByUrl(returned)
  /\ \A i, j \in 1..Len(quarter_issues) :
       i # j => quarter_issues[i].url # quarter_issues[j].url
  /\ seen_urls = { quarter_issues[i].url : i \in 1..Len(quarter_issues) }

\* one URL was returned twice with different search_terms_found, and the
\* quarter kept one record of it
C3_Witness ==
  /\ pc = "persist"
  /\ Len(quarter_issues) = 1
  /\ \E i, j \in 1..Len(returned) :
       /\ i < j
       /\ returned[i].url = returned[j].url
       /\ returned[i].search_terms_found # returned[j].search_terms_found
       /\ quarter_issues[1] = returned[i]

\* C4 (as claimed): after a transport failure no further search request of
\* the call is sent.
C4_TransportFailureStopsPaging ==
  \A i \in 1..Len(requests) : requests[i].status = 0 => i = Len(requests)

\* C4 (amended): a transport failure on page p costs no cooldown and is not
\* retried; the next request of the call is for page p + 1, and the call
\* returns after the failure only when p was the last page max_pages allows.
C4_TransportFailureSkipsPage ==
  /\ cooldowns = Cardinality({ i \in 1..Len(requests) : requests[i].status = 403 })
  /\ \A i \in 1..Len(requests) :
       requests[i].status = 0 =>
         /\ i < Len(requests) => requests[i + 1].page = requests[i].page + 1
         /\ (i = Len(requests) /\ pc # "fetch") =>
              requests[i].page = args.max_pages

\* page 1 failed at transport level and page 2 was requested and brought items
C4_Witness ==
  /\ pc = "fetched"
  /\ Len(requests) = 2
  /\ requests[1].status = 0 /\ requests[1].page = 1
  /\ requests[2].status = 200 /\ requests[2].page = 2
  /\ issues # << >>

\* C5 (as claimed): 403 and 429 are both throttling: each costs one cooldown
\* and neither ends the paging of the call.
C5_Both403And429Throttle ==
  /\ cooldowns =
       Cardinality({ i \in 1..Len(requests) : requests[i].status \in {403, 429} })
  /\ (requests # << >> /\ requests[Len(requests)].status \in {403, 429}) =>
       pc = "fetch"

\* C6 (as claimed): the default command line processes 2025 down to 2015, and
\* any command line processes end-year down to start-year.
C6_YearsFromEndDownToStart ==
  pc = "done" =>
    /\ args = DefaultArgs => years_processed = [i \in 1..11 |-> 2026 - i]
    /\ args.end_year >= args.start_year =>
         years_processed =
           [i \in 1..(args.end_year - args.start_year + 1) |-> args.end_year + 1 - i]

\* C7: the issues written for a quarter are exactly the deduplicated issues
\* with a non-empty image_urls, in first-encounter order, and total_collected
\* is the number of deduplicated issues, with or without images.
C7_SavedIssuesHaveImages ==
  JustSaved =>
    LET dedup == FirstByUrl(returned)
    IN  /\ \A i \in 1..Len(saved.issues) : saved.issues[i].image_urls # << >>
        /\ saved.issues =
             Pick(dedup, { i \in 1..Len(dedup) : Len(dedup[i].image_urls) > 0 })
        /\ saved.total_collected = Len(dedup)
        /\ saved.total_saved = Len(saved.issues)
        /\ saved.total_saved <= saved.total_collected

\* a quarter that collected an issue with images and one without
C7_Witness ==
  /\ JustSaved
  /\ saved.total_saved = 1
  /\ saved.total_collected = 2
  /\ quarter_issues[1].image_urls = << >>
  /\ saved.issues = << quarter_issues[2] >>

\* C8 (as claimed): total_collected counts every item the fetches of the
\* quarter returned, duplicates included.
C8_TotalCollectedCountsRawItems ==
  JustSaved => saved.total_collected = Len(returned)

\* C8 (amended): total_collected counts the distinct URLs among the items the
\* fetches of the quarter returned: a duplicate of a seen URL is not counted.
C8_TotalCollectedCountsDistinctUrls ==
  JustSaved =>
    saved.total_collected =
      Cardinality({ returned[i].url : i \in 1..Len(returned) })

\* a quarter whose fetches returned the same URL twice
C8_Witness ==
  /\ JustSaved
  /\ Len(returned) = 2
  /\ returned[1].url = returned[2].url
  /\ saved.total_collected = 1

\* C9: a fetch call never gathers more than max_pages x per_page issues, and
\* its issues are the items of the pages it received, page after page and in
\* the order of each page.
C9_ResultBoundedAndOrdered ==
  LET received == ItemsReceived(requests)
  IN  /\ Len(issues) <= args.max_pages * args.per_page
      /\ Len(issues) = Len(received)
      /\ \A i \in 1..Len(issues) :
           /\ issues[i].issue_id = received[i].id
           /\ issues[i].url = received[i].html_url

\* two full pages of two different items each
C9_Witness ==
  /\ pc = "fetched"
  /\ args.max_pages = 2 /\ args.per_page = 2
  /\ Len(issues) = 4
  /\ issues[1].url # issues[2].url
  /\ issues[3].url # issues[4].url
  /\ requests[1].items # requests[2].items

\* C10: a fetch call always comes back to the term loop, which goes on to the
\* next term, whatever the server answered, and a quarter that is being
\* crawled gets its files written.
C10_FailuresDoNotAbortQuarter ==
  /\ [][ /\ pc = "fetch" => pc' \in {"fetch", "fetched"}
         /\ pc = "fetched" => (pc' = "term" /\ term_idx' = term_idx + 1) ]_vars
  /\ (pc \in {"window", "term", "fetch", "fetched"}) ~> JustSaved

\* the files of a quarter are written although its last fetch call failed
C10_Witness ==
  /\ JustSaved
  /\ requests # << >>
  /\ Failed(requests[Len(requests)])
  /\ requests[Len(requests)].status \in {0, 403, 500}

\* C11: no quarter that starts after today is crawled, so no search request
\* is made for one; when the quarter loop comes to such a quarter (one that
\* --start-quarter does not skip) it starts no window loop for it and leaves
\* the year: the next step of the driver is the year loop with the year before.
C11_NoFutureQuarter ==
  /\ [](/\ InQuarter => q_start <= today
        /\ \A i \in 1..Len(processed) :
             datetime(processed[i][1], 3 * processed[i][2] - 2, 1) <= today)
  /\ [][ ( /\ pc = "quarter"
           /\ q_index \in 1..4 /\ q_index >= args.start_quarter
           /\ datetime(year, 3 * q_index - 2, 1) > today )
         => ( /\ pc' = "year" /\ year' = year - 1
              /\ processed' = processed /\ requests' = requests ) ]_vars

\* 2025 has been left at its third quarter, after two quarters were crawled
C11_Witness ==
  /\ pc = "year"
  /\ year = args.end_year - 1
  /\ q_index = 3
  /\ q_start > today
  /\ processed = << <<2025, 1>>, <<2025, 2>> >>

\* C12: a search request answered 200 with no items is the last request of
\* its fetch call, on the highest page the call asked for, whatever max_pages
\* is; the call returns the items of the pages before it.
C12_EmptyPageStopsPaging ==
  \A i \in 1..Len(requests) :
    (requests[i].status = 200 /\ requests[i].items = << >>) =>
      /\ i = Len(requests)
      /\ pc # "fetch"
      /\ \A j \in 1..Len(requests) : requests[j].page <= requests[i].page
      /\ LET before == ItemsReceived(SubSeq(requests, 1, i - 1))
         IN  /\ Len(issues) = Len(before)
             /\ \A k \in 1..Len(issues) : issues[k].url = before[k].html_url

\* the first of two allowed pages is empty and the call has returned
C12_Witness ==
  /\ pc = "fetched"
  /\ args.max_pages = 2
  /\ Len(requests) = 1
  /\ requests[1].page = 1
  /\ requests[1].status = 200 /\ requests[1].items = << >>

\* C13: the quarter being crawled starts on the first day of its first month
\* (January, April, July, October) and ends on Mar 31, Jun 30, Sep 30 or
\* Dec 31; the day after its end is the first day of the next quarter (of the
\* next year after Q4), so the quarters of a year cover it without gap or
\* overlap.
C13_QuartersCoverTheYear ==
  InQuarter =>
    /\ strftime(q_start) = << year, 3 * q_index - 2, 1 >>
    /\ strftime(q_end) =
         << year, 3 * q_index, IF q_index \in {1, 4} THEN 31 ELSE 30 >>
    /\ strftime(q_end + 1) =
         IF q_index = 4 THEN << year + 1, 1, 1 >>
         ELSE << year, 3 * q_index + 1, 1 >>
    /\ q_start <= q_end

\* the second quarter of 2024 is being crawled
C13_Witness ==
  /\ pc = "term"
  /\ year = 2024 /\ q_index = 2
  /\ strftime(q_start) = << 2024, 4, 1 >>
  /\ strftime(q_end) = << 2024, 6, 30 >>

\* C14 (as claimed): the first quarter ends on Feb 29 in a leap year and on
\* Feb 28 in every other year.
C14_FirstQuarterEndsInFebruary ==
  (InQuarter /\ q_index = 1) =>
    strftime(q_end) =
      IF year % 4 = 0 /\ (year % 100 # 0 \/ year % 400 = 0)
      THEN << year, 2, 29 >> ELSE << year, 2, 28 >>

\* C14 (amended): the first quarter ends on Mar 31 in every year; a leap year
\* only makes it one day longer, 91 days instead of 90.
C14_FirstQuarterEndsInMarch ==
  (InQuarter /\ q_index = 1) =>
    /\ strftime(q_end) = << year, 3, 31 >>
    /\ q_end - q_start + 1 =
         IF year % 4 = 0 /\ (year % 100 # 0 \/ year % 400 = 0) THEN 91 ELSE 90

\* the first quarter of the leap year 2024 has been crawled to its end
C14_Witness ==
  /\ pc = "persist"
  /\ year = 2024 /\ q_index = 1
  /\ q_end - q_start = 90
  /\ windows[1][2] = datetime(2024, 3, 31)

\* C15 (as claimed): whatever integer --interval-days is, the window loop of
\* a quarter ends: each window ends before the window planned before it, so a
\* quarter of d days is cut into at most d windows, and when the loop is left
\* the last window planned starts at q_start.
C15_WindowLoopTerminates ==
  InQuarter =>
    /\ \A i \in 2..Len(windows) : windows[i][2] < windows[i - 1][2]
    /\ Len(windows) <= q_end - q_start + 1
    /\ pc = "persist" => windows[Len(windows)][1] = q_start

\* C16: with --interval-days N >= 1 no window holds more than N days, every
\* window but the one planned last holds exactly N days, and when the window
\* loop is left the last window starts at q_start; the first quarter of 2021
\* with N = 30 is cut into Mar 2 - Mar 31, Jan 31 - Mar 1 and Jan 1 - Jan 30.
C16_WindowLengths ==
  (InQuarter /\ args.interval_days >= 1) =>
    /\ \A i \in 1..Len(windows) :
         /\ windows[i][2] - windows[i][1] + 1 <= args.interval_days
         /\ i < Len(windows) =>
              windows[i][2] - windows[i][1] + 1 = args.interval_days
    /\ pc = "persist" => windows[Len(windows)][1] = q_start
    /\ (pc = "persist" /\ year = 2021 /\ q_index = 1 /\ args.interval_days = 30) =>
         [ i \in 1..Len(windows) |->
             << strftime(windows[i][1]), strftime(windows[i][2]) >> ]
         = << << <<2021, 3, 2>>, <<2021, 3, 31>> >>,
              << <<2021, 1, 31>>, <<2021, 3, 1>> >>,
              << <<2021, 1, 1>>, <<2021, 1, 30>> >> >>

\* the window loop of the first quarter of 2021 has ended after three windows
C16_Witness ==
  /\ pc = "persist"
  /\ year = 2021 /\ q_index = 1
  /\ args.interval_days = 30
  /\ Len(windows) = 3

\* C17 (as claimed): in a quarter no two comment fetches are made for the
\* same issue URL, and none is made for a URL main() has already kept.
C17_CommentFetchOnlyForUnseen ==
  InQuarter =>
    \A i, j \in 1..Len(comment_fetches) :
      i < j => comment_fetches[i].url # comment_fetches[j].url

\* C17 (amended): in a quarter one comment fetch is made for every raw item
\* the search requests received, in the order received, before main() looks
\* the item's URL up: the fetches made so far are those of the issues the
\* fetch calls returned, duplicates included, and of the issues the running
\* call has gathered.
C17_CommentFetchForEveryItem ==
  InQuarter =>
    LET gathered == IF pc \in {"fetch", "fetched"} THEN issues ELSE << >>
        every == returned \o gathered
    IN  /\ Len(comment_fetches) = Len(every)
        /\ \A i \in 1..Len(every) : comment_fetches[i].url = every[i].url

\* one issue was returned twice in the quarter: two comment fetches, one
\* issue kept
C17_Witness ==
  /\ pc = "persist"
  /\ Len(comment_fetches) = 2
  /\ comment_fetches[1].url = comment_fetches[2].url
  /\ Len(quarter_issues) = 1

\* C18 (as claimed): --start-quarter holds back quarters of the first year
\* processed only: when the run has ended, every quarter of every later year
\* that had started by today was crawled.
C18_StartQuarterInFirstYearOnly ==
  pc = "done" =>
    \A i \in 2..Len(years_processed) : \A q \in 1..4 :
      datetime(years_processed[i], 3 * q - 2, 1) <= today =>
        \E k \in 1..Len(processed) : processed[k] = << years_processed[i], q >>

\* C19: a fetch call makes at most max_pages search requests, for the pages
\* 1, 2, ... in this order and each once, whatever the server answers; while
\* the call is in its page loop the page it is at is the one after its last
\* request, so that after max_pages requests it can only return.
C19_AtMostMaxPagesRequests ==
  /\ Len(requests) <= args.max_pages
  /\ \A i \in 1..Len(requests) : requests[i].page \in 1..args.max_pages
  /\ \A i, j \in 1..Len(requests) :
       i < j => requests[i].page < requests[j].page
  /\ pc = "fetch" => page > Len(requests)

\* the server throttled both pages of a call and the call has returned
C19_Witness ==
  /\ pc = "fetched"
  /\ args.max_pages = 2
  /\ Len(requests) = 2
  /\ requests[1].status = 403 /\ requests[2].status = 403
  /\ cooldowns = 2
  /\ issues = << >>

\* C20: after every row the cleaner has processed, total_scanned is the sum
\* of kept and the three removal counters and is what the stats file holds;
\* the log has exactly one row per row read, for that issue; a row is logged
\* as kept iff it passes the three rules and a removed row is logged, and
\* counted, under the first rule it fails in the order bug keyword, search
\* term, valid image; the images are checked for the rows that pass the first
\* two rules and for no other; the valid rows are the kept rows of the file.
C20_EveryRowAccountedOnce ==
  LET Passes1(row) == contains_bug_keyword(combined_text(row))
      Passes2(row) == contains_valid_search_term(combined_text(row))
      Passes3(row) == any_valid_image(row.image_urls)
      Logged(as) == { i \in 1..Len(clean_log) : clean_log[i].removed_by = as }
  IN  /\ counters.total_scanned =
           counters.kept + counters.removed_bug_keyword
           + counters.removed_search_term + counters.removed_image
      /\ counters.total_scanned = Len(scanned)
      /\ Len(clean_log) = Len(scanned)
      /\ scanned # << >> => stats = << counters >>
      /\ \A i \in 1..Len(scanned) :
           /\ clean_log[i].issue_id = scanned[i].issue_id
           /\ clean_log[i].removed_by = "kept" <=>
                (Passes1(scanned[i]) /\ Passes2(scanned[i]) /\ Passes3(scanned[i]))
           /\ clean_log[i].removed_by = "bug_keyword" <=> ~Passes1(scanned[i])
           /\ clean_log[i].removed_by = "search_term" <=>
                (Passes1(scanned[i]) /\ ~Passes2(scanned[i]))
           /\ clean_log[i].removed_by = "image" <=>
                (Passes1(scanned[i]) /\ Passes2(scanned[i]) /\ ~Passes3(scanned[i]))
           /\ i \in image_checks <=> (Passes1(scanned[i]) /\ Passes2(scanned[i]))
      /\ counters.kept = Cardinality(Logged("kept"))
      /\ counters.removed_bug_keyword = Cardinality(Logged("bug_keyword"))
      /\ counters.removed_search_term = Cardinality(Logged("search_term"))
      /\ counters.removed_image = Cardinality(Logged("image"))
      /\ c_pc = "rows" =>
           /\ total_before <= Len(scanned)
           /\ valid_rows =
                SelectSeq(SubSeq(scanned, Len(scanned) - total_before + 1, Len(scanned)),
                          LAMBDA row : Passes1(row) /\ Passes2(row) /\ Passes3(row))

\* two files of two rows are cleaned: one row kept, one removed by each rule,
\* the row removed for its search terms having no valid image either
C20_Witness ==
  /\ c_pc = "done"
  /\ Len(clean_log) = 4
  /\ counters = [ total_scanned |-> 4, kept |-> 1, removed_bug_keyword |-> 1,
                  removed_search_term |-> 1, removed_image |-> 1 ]
  /\ \E i \in 1..4 :
       /\ clean_log[i].removed_by = "search_term"
       /\ ~any_valid_image(scanned[i].image_urls)
  /\ Len(cleaned) = 1

\* the rows of the per-quarter files of a directory, without their body
RECURSIVE QuarterRows(_)
QuarterRows(dir) ==
  IF dir = << >> THEN << >>
  ELSE RowsRead(Head(dir)) \o QuarterRows(Tail(dir))

\* how often x occurs in the sequence s
Occurrences(s, x) == Cardinality({ i \in 1..Len(s) : s[i] = x })

\* C21 (as claimed): after every run of combine_csv.py over the same
\* per-quarter files the merged file holds each row of each per-quarter file
\* as often as the files hold it and no other row, none with a body column,
\* and it holds the same columns and the same rows as after the first run
\* (in whatever order).
C21_MergeIsIdempotent ==
  \A k \in 1..Len(merged_after) :
    LET merged == merged_after[k][1]
        first == merged_after[1][1]
        expected == QuarterRows(output_dir)
    IN  /\ Len(merged.rows) = Len(expected)
        /\ \A i \in 1..Len(expected) :
             Occurrences(merged.rows, expected[i]) = Occurrences(expected, expected[i])
        /\ \A i \in 1..Len(merged.rows) : "body" \notin DOMAIN merged.rows[i]
        /\ Cols(merged.fieldnames) = Cols(first.fieldnames)
        /\ Len(merged.rows) = Len(first.rows)
        /\ \A i \in 1..Len(first.rows) :
             Occurrences(merged.rows, first.rows[i]) = Occurrences(first.rows, first.rows[i])

====
